---- MODULE Spec2Model ----
(***************************************************************************)
(* Smart calculator (oezg/smart-calculator-go): the read-evaluate loop,    *)
(* the rune-by-rune lexer (RawTerm.Close / RawTerm.Extend), the term       *)
(* validator, the shunting-yard converter (OperatorStack.Update) and the   *)
(* postfix evaluator (Expression.Evaluate), modelled from src/main.go      *)
(* lines 1-417; and the commands /vars, /clear, /con, /del, /read and      *)
(* /write of the extended program in src/unnamed/part_001 (lines 428-957), *)
(* whose lexer, converter and evaluator are the same code.                 *)
(*                                                                         *)
(* A Go string is a sequence of one-rune strings: "3 + 5" is               *)
(* <<"3", " ", "+", " ", "5">>.  A Go error is its message, nil is "".     *)
(* Value is Go's int; the inputs are bounded so that no intermediate value *)
(* leaves its range, and arithmetic is that of the integers.               *)
(***************************************************************************)
EXTENDS Integers, Sequences, FiniteSets, TLC

VARIABLES
    memory,       \* var memory map[Identifier]Value
    pc,           \* where the process is: read, scan, evaluate, deliver, readVariables,
                  \* crashed, undetermined, exited
    input,        \* the line handleCommand was called with
    statement,    \* which handler called the converter: "expression", "assignment"
                  \* or "conversion" ("none" when the line did not get that far)
    assignee,     \* handleAssignment's assignee
    text,         \* makeExpression's text
    pos,          \* index of the next rune the scanner yields
    currentTerm,  \* makeExpression's currentTerm
    lastTerm,     \* makeExpression's lastTerm
    stack,        \* makeExpression's operator stack
    expression,   \* the postfix expression built so far
    err,          \* the error returned so far
    vstack,       \* Evaluate's value stack
    epos,         \* index of the next term Evaluate ranges over
    value,        \* the value evaluateExpression returns
    out,          \* what the current statement printed
    prev,         \* the line handled before the current one, and what it printed
    files,        \* the files of the working directory: name -> lines
    file          \* readVariables's file: whether open, and its lines not yet scanned

vars == <<memory, pc, input, statement, assignee, text, pos, currentTerm, lastTerm,
          stack, expression, err, vstack, epos, value, out, prev, files, file>>

----------------------------------------------------------------------------
(* Program constants *)

UNKNOWN == "Unknown variable"
INVALID == "Invalid "
EMPTY == "empty expression"
\* the first line of the help text
HELP == "Smart calculator can save values to variables"

Digits == {"0", "1", "2", "3", "4", "5", "6", "7", "8", "9"}
DigitSeq == <<"0", "1", "2", "3", "4", "5", "6", "7", "8", "9">>
\* The runes of unicode.Latin the inputs use.
LatinRunes == {"x", "y", "X"}

\* make(map[Identifier]Value)
NoMemory == [k \in {} |-> 0]

\* no file in the working directory; readVariables not running
NoFiles == [k \in {} |-> <<>>]
NoFile == [open |-> FALSE, lines |-> <<>>]

----------------------------------------------------------------------------
(* strings *)

HasPrefix(s, p) == Len(s) >= Len(p) /\ SubSeq(s, 1, Len(p)) = p

HasSuffix(s, p) == Len(s) >= Len(p) /\ SubSeq(s, Len(s) - Len(p) + 1, Len(s)) = p

Contains(s, c) == \E i \in 1..Len(s) : s[i] = c

\* strings.SplitN(s, c, 2) of a string that contains c
SplitN(s, c) ==
    LET i == CHOOSE k \in 1..Len(s) : s[k] = c /\ \A j \in 1..(k - 1) : s[j] # c
    IN  <<SubSeq(s, 1, i - 1), SubSeq(s, i + 1, Len(s))>>

RECURSIVE TrimLeft(_)
TrimLeft(s) == IF Len(s) > 0 /\ s[1] = " " THEN TrimLeft(Tail(s)) ELSE s

RECURSIVE TrimRight(_)
TrimRight(s) ==
    IF Len(s) > 0 /\ s[Len(s)] = " " THEN TrimRight(SubSeq(s, 1, Len(s) - 1)) ELSE s

TrimSpace(s) == TrimRight(TrimLeft(s))

\* strings.Split(s, c): the pieces of s between the occurrences of c
RECURSIVE Split(_, _)
Split(s, c) ==
    IF Contains(s, c) THEN <<SplitN(s, c)[1]>> \o Split(SplitN(s, c)[2], c) ELSE <<s>>

\* strconv.Itoa: decimal notation of n, a '-' before a negative number
RECURSIVE DecimalDigits(_)
DecimalDigits(n) ==
    IF n < Len(DigitSeq) THEN <<DigitSeq[n + 1]>>
    ELSE Append(DecimalDigits(n \div Len(DigitSeq)), DigitSeq[(n % Len(DigitSeq)) + 1])

Decimal(n) == IF n < 0 THEN <<"-">> \o DecimalDigits(0 - n) ELSE DecimalDigits(n)

\* strings.Join(words, " ")
RECURSIVE Join(_)
Join(words) ==
    IF Len(words) = 0 THEN <<>>
    ELSE IF Len(words) = 1 THEN words[1]
    ELSE words[1] \o <<" ">> \o Join(Tail(words))

\* the runes as one string, as printed
RECURSIVE Printed(_)
Printed(runes) == IF Len(runes) = 0 THEN "" ELSE Head(runes) \o Printed(Tail(runes))

----------------------------------------------------------------------------
(* strconv.Atoi, isNumber, isOperator, isIdentifier, plusMinus *)

DigitValue(c) == (CHOOSE i \in 1..Len(DigitSeq) : DigitSeq[i] = c) - 1

RECURSIVE Magnitude(_)
Magnitude(digits) ==
    IF Len(digits) = 0 THEN 0
    ELSE Magnitude(SubSeq(digits, 1, Len(digits) - 1)) * Len(DigitSeq)
         + DigitValue(digits[Len(digits)])

\* strconv.Atoi: an optional sign, then one or more decimal digits.
Atoi(s) ==
    LET signed == Len(s) > 0 /\ s[1] \in {"+", "-"}
        body == IF signed THEN Tail(s) ELSE s
        ok == Len(body) > 0 /\ \A i \in 1..Len(body) : body[i] \in Digits
    IN  [ok |-> ok,
         number |-> IF ~ok THEN 0
                    ELSE IF signed /\ s[1] = "-" THEN 0 - Magnitude(body)
                    ELSE Magnitude(body)]

isNumber(s) == LET a == Atoi(s) IN [value |-> IF a.ok THEN a.number ELSE 0, ok |-> a.ok]

RECURSIVE plusMinusNegative(_)
\* the loop of plusMinus: whether the number of '-' in s is odd
plusMinusNegative(s) ==
    IF Len(s) = 0 THEN FALSE
    ELSE IF s[Len(s)] = "-" THEN ~plusMinusNegative(SubSeq(s, 1, Len(s) - 1))
    ELSE plusMinusNegative(SubSeq(s, 1, Len(s) - 1))

\* a slip in plusMinus: "-" as soon as the run holds a '-', whatever their number
plusMinusAnyMinus(s) ==
    IF \E i \in 1..Len(s) : s[i] \notin {"+", "-"} THEN [text |-> "", err |-> INVALID]
    ELSE IF \E i \in 1..Len(s) : s[i] = "-" THEN [text |-> "-", err |-> ""]
    ELSE [text |-> "+", err |-> ""]

plusMinus(s) ==
    IF \E i \in 1..Len(s) : s[i] \notin {"+", "-"} THEN [text |-> "", err |-> INVALID]
    ELSE IF plusMinusNegative(s) THEN [text |-> "-", err |-> ""]
    ELSE [text |-> "+", err |-> ""]

OperatorRunes == {"*", "/", "^", "%", "(", ")", "+", "-"}

isOperator(s) ==
    IF Len(s) = 1 /\ s[1] \in OperatorRunes THEN [operator |-> s[1], ok |-> TRUE]
    ELSE LET pm == plusMinus(s)
         IN  IF pm.err = "" THEN [operator |-> pm.text, ok |-> TRUE]
             ELSE [operator |-> "", ok |-> FALSE]

isIdentifier(s) == \A i \in 1..Len(s) : s[i] \in LatinRunes

----------------------------------------------------------------------------
(* Term, RawTerm and the generic stack helpers *)

ZeroTerm == [Value |-> 0, IsOperator |-> FALSE, Operator |-> ""]
ValueTerm(v) == [Value |-> v, IsOperator |-> FALSE, Operator |-> ""]
OperatorTerm(o) == [Value |-> 0, IsOperator |-> TRUE, Operator |-> o]

ZeroRawTerm == [isIdentifier |-> FALSE, isValue |-> FALSE, isOperator |-> FALSE,
                closed |-> FALSE, Text |-> <<>>]

IsEmpty(list) == Len(list) = 0

Peek(s, zero) == IF IsEmpty(s) THEN zero ELSE s[Len(s)]

Push(s, element) == Append(s, element)

\* Pop of an empty stack returns the nil slice and the zero value.
Pop(s, zero) ==
    IF IsEmpty(s) THEN [stack |-> <<>>, top |-> zero, isNil |-> TRUE]
    ELSE [stack |-> SubSeq(s, 1, Len(s) - 1), top |-> s[Len(s)], isNil |-> FALSE]

----------------------------------------------------------------------------
(* Operator.Operate and Precedence *)

Abs(n) == IF n < 0 THEN 0 - n ELSE n

\* a slip in the division: the quotient rounded toward minus infinity
QuotientFloor(a, b) ==
    IF (a < 0) = (b < 0) THEN Abs(a) \div Abs(b)
    ELSE 0 - ((Abs(a) + Abs(b) - 1) \div Abs(b))

\* Go's integer division and remainder truncate toward zero.
Quotient(a, b) ==
    IF (a < 0) = (b < 0) THEN Abs(a) \div Abs(b) ELSE 0 - (Abs(a) \div Abs(b))

Remainder(a, b) == a - b * Quotient(a, b)

RECURSIVE Power(_, _)
Power(a, n) == IF n = 0 THEN 1 ELSE a * Power(a, n - 1)

\* Value(math.Pow(float64(a), float64(b))): exact for an exponent >= 0; a negative
\* exponent gives a fraction, truncated; 0 to a negative exponent is +Inf, whose
\* conversion to int the language leaves to the implementation.
Pow(a, b) ==
    IF b >= 0 THEN [result |-> Power(a, b), implementation |-> FALSE]
    ELSE IF a = 0 THEN [result |-> 0, implementation |-> TRUE]
    ELSE IF a = 1 THEN [result |-> 1, implementation |-> FALSE]
    ELSE IF a = 0 - 1
         THEN [result |-> IF b % 2 = 0 THEN 1 ELSE 0 - 1, implementation |-> FALSE]
    ELSE [result |-> 0, implementation |-> FALSE]

\* panic: the Go runtime's "integer divide by zero", which nothing recovers.
Operate(operator, value1, value2) ==
    CASE operator = "+" ->
            [result |-> value1 + value2, panic |-> FALSE, implementation |-> FALSE]
      [] operator = "-" ->
            [result |-> value1 - value2, panic |-> FALSE, implementation |-> FALSE]
      [] operator = "*" ->
            [result |-> value1 * value2, panic |-> FALSE, implementation |-> FALSE]
      [] operator = "/" ->
            IF value2 = 0 THEN [result |-> 0, panic |-> TRUE, implementation |-> FALSE]
            ELSE [result |-> Quotient(value1, value2), panic |-> FALSE,
                  implementation |-> FALSE]
      [] operator = "%" ->
            IF value2 = 0 THEN [result |-> 0, panic |-> TRUE, implementation |-> FALSE]
            ELSE [result |-> Remainder(value1, value2), panic |-> FALSE,
                  implementation |-> FALSE]
      [] operator = "^" ->
            [result |-> Pow(value1, value2).result, panic |-> FALSE,
             implementation |-> Pow(value1, value2).implementation]
      [] OTHER -> [result |-> 0, panic |-> FALSE, implementation |-> FALSE]

\* a slip in Precedence: '*', '/' and '%' bind like '+' and '-'
PrecedenceFlat(operator) ==
    CASE operator \in {"+", "-", "*", "/", "%"} -> 1
      [] operator = "^" -> 3
      [] OTHER -> 0

Precedence(operator) ==
    CASE operator \in {"+", "-"} -> 1
      [] operator \in {"*", "/", "%"} -> 2
      [] operator = "^" -> 3
      [] OTHER -> 0

----------------------------------------------------------------------------
(* validate *)

\* a slip in validate: a name that is no key of memory validates to the zero value
validateUnknownAsZero(term, mem) ==
    IF term.isOperator THEN
        LET o == isOperator(term.Text)
        IN  IF o.ok THEN [validated |-> OperatorTerm(o.operator), err |-> ""]
            ELSE [validated |-> ZeroTerm, err |-> INVALID]
    ELSE IF term.isValue THEN
        LET n == isNumber(term.Text)
        IN  IF n.ok THEN [validated |-> ValueTerm(n.value), err |-> ""]
            ELSE [validated |-> ZeroTerm, err |-> INVALID]
    ELSE IF term.isIdentifier /\ term.Text \in DOMAIN mem
    THEN [validated |-> ValueTerm(mem[term.Text]), err |-> ""]
    ELSE [validated |-> ZeroTerm, err |-> ""]

validate(term, mem) ==
    IF term.isOperator THEN
        LET o == isOperator(term.Text)
        IN  IF o.ok THEN [validated |-> OperatorTerm(o.operator), err |-> ""]
            ELSE [validated |-> ZeroTerm, err |-> INVALID]
    ELSE IF term.isValue THEN
        LET n == isNumber(term.Text)
        IN  IF n.ok THEN [validated |-> ValueTerm(n.value), err |-> ""]
            ELSE [validated |-> ZeroTerm, err |-> INVALID]
    ELSE IF term.isIdentifier THEN
        IF term.Text \in DOMAIN mem
        THEN [validated |-> ValueTerm(mem[term.Text]), err |-> ""]
        ELSE IF isIdentifier(term.Text) THEN [validated |-> ZeroTerm, err |-> UNKNOWN]
        ELSE [validated |-> ZeroTerm, err |-> INVALID]
    ELSE [validated |-> ZeroTerm, err |-> ""]

----------------------------------------------------------------------------
(* OperatorStack.Update, Expression.Add, Expression.Grow *)

RECURSIVE UpdateClose(_, _)
\* the loop of Update for ")": pop and emit until a "(" is popped
UpdateClose(s, operators) ==
    IF IsEmpty(s) THEN [stack |-> s, operators |-> operators, err |-> INVALID]
    ELSE LET p == Pop(s, "")
         IN  IF p.top = "(" THEN [stack |-> p.stack, operators |-> operators, err |-> ""]
             ELSE UpdateClose(p.stack, Push(operators, OperatorTerm(p.top)))

RECURSIVE UpdatePrecedenceStrict(_, _, _)
\* a slip in Update's last loop: an operator of equal precedence left on the stack
UpdatePrecedenceStrict(s, operator, operators) ==
    IF IsEmpty(s) THEN [stack |-> Push(s, operator), operators |-> operators, err |-> ""]
    ELSE LET topOfStack == Peek(s, "")
         IN  IF topOfStack = "(" \/ Precedence(topOfStack) <= Precedence(operator)
             THEN [stack |-> Push(s, operator), operators |-> operators, err |-> ""]
             ELSE UpdatePrecedenceStrict(Pop(s, "").stack, operator,
                                         Append(operators, OperatorTerm(topOfStack)))

RECURSIVE UpdatePrecedence(_, _, _)
\* the last loop of Update: pop and emit what does not bind less than the operator
UpdatePrecedence(s, operator, operators) ==
    IF IsEmpty(s) THEN [stack |-> Push(s, operator), operators |-> operators, err |-> ""]
    ELSE LET topOfStack == Peek(s, "")
         IN  IF topOfStack = "(" \/ Precedence(topOfStack) < Precedence(operator)
             THEN [stack |-> Push(s, operator), operators |-> operators, err |-> ""]
             ELSE UpdatePrecedence(Pop(s, "").stack, operator,
                                   Append(operators, OperatorTerm(topOfStack)))

Update(s, operator) ==
    IF IsEmpty(s) \/ operator = "(" \/ Peek(s, "") = "("
    THEN [stack |-> Push(s, operator), operators |-> <<>>, err |-> ""]
    ELSE IF operator = ")" THEN UpdateClose(s, <<>>)
    ELSE IF Precedence(Peek(s, "")) < Precedence(operator)
    THEN [stack |-> Push(s, operator), operators |-> <<>>, err |-> ""]
    ELSE UpdatePrecedence(s, operator, <<>>)

Add(expr, terms) == expr \o terms

Grow(expr, s, term) ==
    IF term.IsOperator THEN
        LET u == Update(s, term.Operator)
        IN  IF u.err # "" THEN [expression |-> expr, stack |-> <<>>, err |-> u.err]
            ELSE [expression |-> Add(expr, u.operators), stack |-> u.stack, err |-> ""]
    ELSE [expression |-> Add(expr, <<term>>), stack |-> s, err |-> ""]

----------------------------------------------------------------------------
(* RawTerm.Close and RawTerm.Extend *)

\* a slip in Close: a sign closed by the sign that follows it, so that no run forms
CloseEachSign(term, last, char) ==
    IF char = " " THEN [term EXCEPT !.closed = TRUE]
    ELSE IF term.isValue THEN [term EXCEPT !.closed = ~isNumber(<<char>>).ok]
    ELSE IF term.isOperator THEN
        IF isNumber(<<char>>).ok /\ (term.Text = <<"+">> \/ term.Text = <<"-">>)
        THEN [term EXCEPT !.closed = last.isIdentifier \/ last.isValue]
        ELSE [term EXCEPT !.closed = TRUE]
    ELSE IF term.isIdentifier THEN [term EXCEPT !.closed = ~isIdentifier(<<char>>)]
    ELSE term

Close(term, last, char) ==
    IF char = " " THEN [term EXCEPT !.closed = TRUE]
    ELSE IF term.isValue THEN [term EXCEPT !.closed = ~isNumber(<<char>>).ok]
    ELSE IF term.isOperator THEN
        IF isNumber(<<char>>).ok /\ (term.Text = <<"+">> \/ term.Text = <<"-">>)
        THEN [term EXCEPT !.closed = last.isIdentifier \/ last.isValue]
        ELSE IF HasSuffix(term.Text, <<"+">>) \/ HasSuffix(term.Text, <<"-">>)
        THEN [term EXCEPT !.closed = ~(char = "+" \/ char = "-")]
        ELSE [term EXCEPT !.closed = TRUE]
    ELSE IF term.isIdentifier THEN [term EXCEPT !.closed = ~isIdentifier(<<char>>)]
    ELSE term

\* a slip in Extend: a rune that starts no term skipped
ExtendSkipsInvalid(term, char) ==
    IF char = " " THEN [term |-> term, err |-> ""]
    ELSE IF term.isValue THEN [term |-> [term EXCEPT !.Text = Append(@, char)], err |-> ""]
    ELSE IF term.isOperator THEN
        IF isNumber(<<char>>).ok
        THEN [term |-> [term EXCEPT !.isOperator = FALSE, !.isValue = TRUE,
                                    !.Text = Append(@, char)],
              err |-> ""]
        ELSE [term |-> [term EXCEPT !.Text = Append(@, char)], err |-> ""]
    ELSE IF term.isIdentifier
    THEN [term |-> [term EXCEPT !.Text = Append(@, char)], err |-> ""]
    ELSE IF isNumber(<<char>>).ok
    THEN [term |-> [term EXCEPT !.isValue = TRUE, !.Text = Append(@, char)], err |-> ""]
    ELSE IF isOperator(<<char>>).ok
    THEN [term |-> [term EXCEPT !.isOperator = TRUE, !.Text = Append(@, char)], err |-> ""]
    ELSE IF isIdentifier(<<char>>)
    THEN [term |-> [term EXCEPT !.isIdentifier = TRUE, !.Text = Append(@, char)],
          err |-> ""]
    ELSE [term |-> term, err |-> ""]

Extend(term, char) ==
    IF char = " " THEN [term |-> term, err |-> ""]
    ELSE IF term.isValue THEN [term |-> [term EXCEPT !.Text = Append(@, char)], err |-> ""]
    ELSE IF term.isOperator THEN
        IF isNumber(<<char>>).ok
        THEN [term |-> [term EXCEPT !.isOperator = FALSE, !.isValue = TRUE,
                                    !.Text = Append(@, char)],
              err |-> ""]
        ELSE [term |-> [term EXCEPT !.Text = Append(@, char)], err |-> ""]
    ELSE IF term.isIdentifier
    THEN [term |-> [term EXCEPT !.Text = Append(@, char)], err |-> ""]
    ELSE IF isNumber(<<char>>).ok
    THEN [term |-> [term EXCEPT !.isValue = TRUE, !.Text = Append(@, char)], err |-> ""]
    ELSE IF isOperator(<<char>>).ok
    THEN [term |-> [term EXCEPT !.isOperator = TRUE, !.Text = Append(@, char)], err |-> ""]
    ELSE IF isIdentifier(<<char>>)
    THEN [term |-> [term EXCEPT !.isIdentifier = TRUE, !.Text = Append(@, char)],
          err |-> ""]
    ELSE [term |-> [term EXCEPT !.Text = Append(@, char)], err |-> INVALID]

----------------------------------------------------------------------------
(* makeExpression: the body of its scanner loop, and what follows the loop *)

makeExpressionStep(cur, last, s, expr, char, mem) ==
    LET closedTerm == Close(cur, last, char)
    IN  IF closedTerm.closed THEN
            LET v == validate(closedTerm, mem)
                g == Grow(expr, s, v.validated)
                e == Extend(ZeroRawTerm, char)
            IN  IF v.err # ""
                THEN [currentTerm |-> closedTerm, lastTerm |-> last, stack |-> s,
                      expression |-> expr, err |-> v.err]
                ELSE IF g.err # ""
                THEN [currentTerm |-> closedTerm, lastTerm |-> last, stack |-> g.stack,
                      expression |-> expr, err |-> g.err]
                ELSE [currentTerm |-> e.term, lastTerm |-> closedTerm, stack |-> g.stack,
                      expression |-> g.expression, err |-> e.err]
        ELSE LET e == Extend(closedTerm, char)
             IN  [currentTerm |-> e.term, lastTerm |-> last, stack |-> s,
                  expression |-> expr, err |-> e.err]

RECURSIVE PopAllBottomFirst(_, _)
\* a slip in the final loop: the stack emptied from its bottom
PopAllBottomFirst(s, expr) ==
    IF IsEmpty(s) THEN expr
    ELSE PopAllBottomFirst(Tail(s), Add(expr, <<OperatorTerm(Head(s))>>))

RECURSIVE PopAllButParentheses(_, _)
\* a slip in the final loop: an unmatched '(' dropped instead of appended
PopAllButParentheses(s, expr) ==
    IF IsEmpty(s) THEN expr
    ELSE LET p == Pop(s, "")
         IN  PopAllButParentheses(p.stack, IF p.top = "(" THEN expr
                                           ELSE Add(expr, <<OperatorTerm(p.top)>>))

RECURSIVE PopAll(_, _)
\* the loop that empties the operator stack into the expression, top first
PopAll(s, expr) ==
    IF IsEmpty(s) THEN expr
    ELSE LET p == Pop(s, "") IN PopAll(p.stack, Add(expr, <<OperatorTerm(p.top)>>))

makeExpressionEnd(cur, s, expr, mem) ==
    LET v == validate(cur, mem)
        g == Grow(expr, s, v.validated)
    IN  IF v.err # "" THEN [stack |-> s, expression |-> expr, err |-> v.err]
        ELSE IF g.err # "" THEN [stack |-> g.stack, expression |-> expr, err |-> g.err]
        ELSE [stack |-> <<>>, expression |-> PopAll(g.stack, g.expression), err |-> ""]

----------------------------------------------------------------------------
(* Expression.Evaluate: the body of its range loop *)

\* a slip in Evaluate: the operands handed to Operate in the order they were popped
EvaluateStepSwapped(vs, term, e) ==
    IF ~term.IsOperator
    THEN [stack |-> Push(vs, term.Value), err |-> e, panic |-> FALSE,
          implementation |-> FALSE]
    ELSE LET p1 == Pop(vs, 0)
             p2 == Pop(p1.stack, 0)
             o == Operate(term.Operator, p1.top, p2.top)
         IN  [stack |-> Push(p2.stack, o.result),
              err |-> IF p2.isNil THEN INVALID ELSE e,
              panic |-> o.panic,
              implementation |-> o.implementation]

EvaluateStep(vs, term, e) ==
    IF ~term.IsOperator
    THEN [stack |-> Push(vs, term.Value), err |-> e, panic |-> FALSE,
          implementation |-> FALSE]
    ELSE LET p1 == Pop(vs, 0)
             p2 == Pop(p1.stack, 0)
             value1 == p1.top
             value2 == p2.top
             o == Operate(term.Operator, value2, value1)
         IN  [stack |-> Push(p2.stack, o.result),
              err |-> IF p2.isNil THEN INVALID ELSE e,
              panic |-> o.panic,
              implementation |-> o.implementation]

----------------------------------------------------------------------------
(* must and printError: what a failed statement prints *)

NoOutput == [kind |-> "none", value |-> 0, message |-> ""]
PrintValue(v) == [kind |-> "value", value |-> v, message |-> ""]
PrintMessage(m) == [kind |-> "message", value |-> 0, message |-> m]

printError(message, stmt) ==
    IF message = INVALID THEN PrintMessage(message \o stmt) ELSE PrintMessage(message)

\* a slip in must: the empty expression reported like any other error
mustReportsEmpty(e, stmt) == printError(e, stmt)

must(e, stmt) == IF e # EMPTY THEN printError(e, stmt) ELSE NoOutput

----------------------------------------------------------------------------
(* handleCommand, handleAssignment, handleExpression up to the call of            *)
(* evaluateExpression: the values the variables take when a line has been read   *)

\* evaluateExpression(txt) called for statement stmt: makeExpression returns EMPTY
\* at once for an empty text
Call(line, stmt, who, txt) ==
    [pc |-> IF Len(txt) = 0 THEN "deliver" ELSE "scan",
     input |-> line, statement |-> stmt, assignee |-> who, text |-> txt,
     err |-> IF Len(txt) = 0 THEN EMPTY ELSE "", out |-> NoOutput]

Said(line, message, next) ==
    [pc |-> next, input |-> line, statement |-> "none", assignee |-> <<>>,
     text |-> <<>>, err |-> "", out |-> PrintMessage(message)]

handleExpression(line) == Call(line, "expression", <<>>, TrimSpace(line))

handleAssignment(line) ==
    IF ~Contains(line, "=") THEN handleExpression(line)
    ELSE LET assignmentSides == SplitN(line, "=")
             who == TrimSpace(assignmentSides[1])
             assigned == TrimSpace(assignmentSides[2])
         IN  IF ~isIdentifier(who) THEN Said(line, "Invalid identifier", "read")
             ELSE Call(line, "assignment", who, assigned)

handleCommand(line) ==
    IF HasPrefix(line, <<"/">>) THEN
        CASE Tail(line) = <<"e", "x", "i", "t">> -> Said(line, "Bye!", "exited")
          [] Tail(line) = <<"h", "e", "l", "p">> -> Said(line, HELP, "read")
          [] OTHER -> Said(line, "Unknown command", "read")
    ELSE handleAssignment(line)

----------------------------------------------------------------------------
(* The commands of the extended program (src/unnamed/part_001, from its second *)
(* package clause on): the same lexer, converter and evaluator, and a          *)
(* handleCommand with /vars, /clear, /con, /del, /read and /write.  Its        *)
(* UNKNOWN message has a space at its end.                                     *)

\* the first line of the extended program's help text
HELPExtended == "Smart calculator commands:"

\* the byte a rune of an identifier is encoded as
RuneCode == [r \in LatinRunes |-> CASE r = "X" -> 88 [] r = "x" -> 120 [] r = "y" -> 121]

\* Go's a < b on strings of Latin letters
RECURSIVE Less(_, _)
Less(a, b) ==
    IF Len(b) = 0 THEN FALSE
    ELSE IF Len(a) = 0 THEN TRUE
    ELSE IF a[1] = b[1] THEN Less(Tail(a), Tail(b))
    ELSE RuneCode[a[1]] < RuneCode[b[1]]

\* a slip in Expression.String: the terms joined by nothing
RECURSIVE StringUnspaced(_)
StringUnspaced(expr) ==
    IF Len(expr) = 0 THEN <<>>
    ELSE (IF expr[1].IsOperator THEN <<expr[1].Operator>> ELSE Decimal(expr[1].Value))
         \o StringUnspaced(Tail(expr))

\* Expression.String: numbers in decimal, operators as they are, joined by spaces
String(expr) ==
    Join([i \in 1..Len(expr) |->
            IF expr[i].IsOperator THEN <<expr[i].Operator>> ELSE Decimal(expr[i].Value)])

\* the keys of memory in ascending order
sortVariables(mem) ==
    CHOOSE identifiers \in [1..Cardinality(DOMAIN mem) -> DOMAIN mem] :
        \A i \in DOMAIN identifiers, j \in DOMAIN identifiers :
            i < j => Less(identifiers[i], identifiers[j])

\* a slip in printVariables: the value written without its sign
printVariablesUnsigned(mem) ==
    LET identifiers == sortVariables(mem)
    IN  [i \in DOMAIN identifiers |->
            identifiers[i] \o <<" ", "=", " ">> \o Decimal(Abs(mem[identifiers[i]]))]

\* the lines printVariables writes: "identifier = value" for each key in order
printVariables(mem) ==
    LET identifiers == sortVariables(mem)
    IN  [i \in DOMAIN identifiers |->
            identifiers[i] \o <<" ", "=", " ">> \o Decimal(mem[identifiers[i]])]

\* the lines as written to standard output, the last line feed left out
RECURSIVE PrintedLines(_)
PrintedLines(lines) ==
    IF Len(lines) = 0 THEN ""
    ELSE IF Len(lines) = 1 THEN Printed(lines[1])
    ELSE Printed(lines[1]) \o "\n" \o PrintedLines(Tail(lines))

PrintLines(lines) == IF Len(lines) = 0 THEN NoOutput ELSE PrintMessage(PrintedLines(lines))

\* a slip in deleteVariables: only the first argument deleted
deleteVariablesFirst(mem, txt) ==
    [k \in DOMAIN mem \ {Split(txt, " ")[1]} |-> mem[k]]

\* memory after deleteVariables(txt)
deleteVariables(mem, txt) ==
    LET arguments == Split(txt, " ")
    IN  [k \in DOMAIN mem \ {arguments[i] : i \in DOMAIN arguments} |-> mem[k]]

\* the command returned without calling the converter, having printed `printed`
Returns(line, printed, next) ==
    [pc |-> next, input |-> line, statement |-> "none", assignee |-> <<>>,
     text |-> <<>>, err |-> "", out |-> printed]

\* the results of a command: the statement's record, memory, the files, the open file
Result(b, mem, fs, f) ==
    [pc |-> b.pc, input |-> b.input, statement |-> b.statement, assignee |-> b.assignee,
     text |-> b.text, err |-> b.err, out |-> b.out, memory |-> mem, files |-> fs,
     file |-> f]

\* convertExpression up to the call of convert2Postfix
convertExpression(line, txt) == Call(line, "conversion", <<>>, TrimSpace(txt))

\* os.Open and os.Create fail with this error for a file that is not there
NotExist(name) == "open " \o Printed(name) \o ": no such file or directory"

\* what a nil *os.File answers to Read, Write and Close
ErrInvalid == "invalid argument"

\* readVariables up to its loop: a file that is not there prints the error of
\* os.Open, its scanner yields no line, and the deferred Close prints ErrInvalid
readVariables(line, name, mem, fs) ==
    IF name \in DOMAIN fs
    THEN Result(Returns(line, NoOutput, "readVariables"), mem, fs,
                [open |-> TRUE, lines |-> fs[name]])
    ELSE Result(Returns(line, PrintMessage(NotExist(name) \o "\n" \o ErrInvalid), "read"),
                mem, fs, NoFile)

\* writeVariables: os.Create truncates or creates the file; it fails for the empty
\* name, and then each Fprintf and the deferred Close print ErrInvalid
writeVariables(line, name, mem, fs) ==
    IF Len(name) = 0
    THEN Result(Returns(line,
                        PrintMessage(NotExist(name) \o "\n"
                                     \o PrintedLines([i \in 1..(Cardinality(DOMAIN mem) + 1)
                                                        |-> <<ErrInvalid>>])),
                        "read"),
                mem, fs, NoFile)
    ELSE Result(Returns(line, NoOutput, "read"), mem,
                [k \in DOMAIN fs \cup {name} |->
                    IF k = name THEN printVariables(mem) ELSE fs[k]],
                NoFile)

handleCommandExtended(line, mem, fs) ==
    IF ~HasPrefix(line, <<"/">>) THEN Result(handleAssignment(line), mem, fs, NoFile)
    ELSE LET commands == IF Contains(Tail(line), " ") THEN SplitN(Tail(line), " ")
                         ELSE <<Tail(line)>>
             command == commands[1]
             silent == Result(Returns(line, NoOutput, "read"), mem, fs, NoFile)
         IN  CASE command = <<"e", "x", "i", "t">> ->
                    Result(Said(line, "Bye!", "exited"), mem, fs, NoFile)
               [] command = <<"h", "e", "l", "p">> ->
                    Result(Said(line, HELPExtended, "read"), mem, fs, NoFile)
               [] command = <<"v", "a", "r", "s">> ->
                    Result(Returns(line, PrintLines(printVariables(mem)), "read"),
                           mem, fs, NoFile)
               [] command = <<"c", "l", "e", "a", "r">> ->
                    Result(Returns(line, NoOutput, "read"), NoMemory, fs, NoFile)
               [] command = <<"c", "o", "n">> ->
                    IF Len(commands) = 1 THEN silent
                    ELSE Result(convertExpression(line, commands[2]), mem, fs, NoFile)
               [] command = <<"d", "e", "l">> ->
                    IF Len(commands) = 1 THEN silent
                    ELSE Result(Returns(line, NoOutput, "read"),
                                deleteVariables(mem, commands[2]), fs, NoFile)
               [] command = <<"r", "e", "a", "d">> ->
                    IF Len(commands) = 1 THEN silent
                    ELSE readVariables(line, commands[2], mem, fs)
               [] command = <<"w", "r", "i", "t", "e">> ->
                    IF Len(commands) = 1 THEN silent
                    ELSE writeVariables(line, commands[2], mem, fs)
               [] OTHER -> Result(Said(line, "Unknown command", "read"), mem, fs, NoFile)

----------------------------------------------------------------------------
(* Actions *)

\* main's loop read `line`: handleCommand(line) up to the call of evaluateExpression
Read(line) ==
    LET b == handleCommand(line)
    IN  /\ pc = "read"
        /\ pc' = b.pc
        /\ input' = b.input
        /\ statement' = b.statement
        /\ assignee' = b.assignee
        /\ text' = b.text
        /\ err' = b.err
        /\ out' = b.out
        /\ prev' = [input |-> input, out |-> out]
        /\ pos' = 1
        /\ currentTerm' = ZeroRawTerm
        /\ lastTerm' = ZeroRawTerm
        /\ stack' = <<>>
        /\ expression' = <<>>
        /\ vstack' = <<>>
        /\ epos' = 1
        /\ value' = 0
        /\ UNCHANGED <<memory, files, file>>

\* one iteration of makeExpression's loop
ScanRune ==
    /\ pc = "scan"
    /\ pos <= Len(text)
    /\ LET s == makeExpressionStep(currentTerm, lastTerm, stack, expression, text[pos],
                                   memory)
       IN  /\ currentTerm' = s.currentTerm
           /\ lastTerm' = s.lastTerm
           /\ stack' = s.stack
           /\ expression' = s.expression
           /\ err' = s.err
           /\ pc' = IF s.err # "" THEN "deliver" ELSE "scan"
    /\ pos' = pos + 1
    /\ UNCHANGED <<memory, input, statement, assignee, text, vstack, epos, value, out, prev,
                   files, file>>

\* makeExpression after its loop; on success evaluateExpression calls Evaluate, and
\* convertExpression prints the expression
ScanEnd ==
    /\ pc = "scan"
    /\ pos > Len(text)
    /\ LET s == makeExpressionEnd(currentTerm, stack, expression, memory)
       IN  /\ stack' = s.stack
           /\ expression' = s.expression
           /\ err' = s.err
           /\ pc' = IF s.err # "" \/ statement = "conversion" THEN "deliver"
                    ELSE "evaluate"
    /\ vstack' = <<>>
    /\ epos' = 1
    /\ UNCHANGED <<memory, input, statement, assignee, text, pos, currentTerm, lastTerm,
                   value, out, prev, files, file>>

\* one iteration of Evaluate's loop
EvalTerm ==
    /\ pc = "evaluate"
    /\ epos <= Len(expression)
    /\ LET s == EvaluateStep(vstack, expression[epos], err)
       IN  /\ vstack' = s.stack
           /\ err' = s.err
           /\ pc' = IF s.panic THEN "crashed"
                    ELSE IF s.implementation THEN "undetermined"
                    ELSE "evaluate"
    /\ epos' = epos + 1
    /\ UNCHANGED <<memory, input, statement, assignee, text, pos, currentTerm, lastTerm,
                   stack, expression, value, out, prev, files, file>>

\* Evaluate returns: EMPTY for an empty expression, else the top of the value stack
EvalEnd ==
    /\ pc = "evaluate"
    /\ epos > Len(expression)
    /\ IF IsEmpty(expression)
       THEN err' = EMPTY /\ value' = 0
       ELSE err' = err /\ value' = Peek(vstack, 0)
    /\ pc' = "deliver"
    /\ UNCHANGED <<memory, input, statement, assignee, text, pos, currentTerm, lastTerm,
                   stack, expression, vstack, epos, out, prev, files, file>>

\* a slip in the map store: the other variables forgotten
StoreForgets(mem, who, v) == [k \in {who} |-> v]

Store(mem, who, v) == [k \in DOMAIN mem \cup {who} |-> IF k = who THEN v ELSE mem[k]]

\* a slip in handleAssignment: the result stored whatever the error
DeliverStoresOnError ==
    /\ pc = "deliver"
    /\ IF statement = "assignment"
       THEN /\ memory' = Store(memory, assignee, value)
            /\ out' = IF err = "" THEN NoOutput ELSE must(err, "assignment")
       ELSE IF statement = "conversion"
       THEN /\ memory' = memory
            /\ out' = IF err = "" THEN PrintMessage(Printed(String(expression)))
                      ELSE PrintMessage(err)
       ELSE /\ memory' = memory
            /\ out' = IF err = "" THEN PrintValue(value) ELSE must(err, "expression")
    /\ pc' = IF file.open THEN "readVariables" ELSE "read"
    /\ UNCHANGED <<input, statement, assignee, text, pos, currentTerm, lastTerm, stack,
                   expression, err, vstack, epos, value, prev, files, file>>

\* evaluateExpression returned to handleExpression or handleAssignment, or
\* convert2Postfix to convertExpression
Deliver ==
    /\ pc = "deliver"
    /\ IF statement = "assignment"
       THEN IF err = ""
            THEN memory' = Store(memory, assignee, value) /\ out' = NoOutput
            ELSE memory' = memory /\ out' = must(err, "assignment")
       ELSE IF statement = "conversion"
       THEN /\ memory' = memory
            /\ out' = IF err = "" THEN PrintMessage(Printed(String(expression)))
                      ELSE PrintMessage(err)
       ELSE /\ memory' = memory
            /\ out' = IF err = "" THEN PrintValue(value) ELSE must(err, "expression")
    /\ pc' = IF file.open THEN "readVariables" ELSE "read"
    /\ UNCHANGED <<input, statement, assignee, text, pos, currentTerm, lastTerm, stack,
                   expression, err, vstack, epos, value, prev, files, file>>

\* main's loop of the extended program read `line`
ReadExtended(line) ==
    LET b == handleCommandExtended(line, memory, files)
    IN  /\ pc = "read"
        /\ pc' = b.pc
        /\ input' = b.input
        /\ statement' = b.statement
        /\ assignee' = b.assignee
        /\ text' = b.text
        /\ err' = b.err
        /\ out' = b.out
        /\ memory' = b.memory
        /\ files' = b.files
        /\ file' = b.file
        /\ prev' = [input |-> input, out |-> out]
        /\ pos' = 1
        /\ currentTerm' = ZeroRawTerm
        /\ lastTerm' = ZeroRawTerm
        /\ stack' = <<>>
        /\ expression' = <<>>
        /\ vstack' = <<>>
        /\ epos' = 1
        /\ value' = 0

\* one iteration of readVariables's loop: handleAssignment on the next line of the
\* file; after the last line the deferred Close
ScanFile ==
    /\ pc = "readVariables"
    /\ IF Len(file.lines) = 0
       THEN /\ pc' = "read"
            /\ file' = NoFile
            /\ UNCHANGED <<statement, assignee, text, pos, currentTerm, lastTerm, stack,
                           expression, err, vstack, epos, value, out>>
       ELSE LET b == handleAssignment(Head(file.lines))
            IN  /\ pc' = IF b.pc = "read" THEN "readVariables" ELSE b.pc
                /\ file' = [file EXCEPT !.lines = Tail(@)]
                /\ statement' = b.statement
                /\ assignee' = b.assignee
                /\ text' = b.text
                /\ err' = b.err
                /\ out' = b.out
                /\ pos' = 1
                /\ currentTerm' = ZeroRawTerm
                /\ lastTerm' = ZeroRawTerm
                /\ stack' = <<>>
                /\ expression' = <<>>
                /\ vstack' = <<>>
                /\ epos' = 1
                /\ value' = 0
    /\ UNCHANGED <<memory, input, prev, files>>

----------------------------------------------------------------------------
(* Inputs *)

MaxOperand == 12
MaxSmall == 3
MaxLen == 4
MaxTerms == 3
MaxRun == 3
MaxSpaces == 2

Operands == (0 - MaxOperand)..MaxOperand
SmallOperands == (0 - MaxSmall)..MaxSmall

Binary(a, op, b) == Join(<<Decimal(a), <<op>>, Decimal(b)>>)

BinaryLines == {Binary(a, op, b) : a \in Operands, op \in {"+", "-", "*", "/", "%"},
                                   b \in Operands}

SumProduct(a, b, c) == Join(<<Decimal(a), <<"+">>, Decimal(b), <<"*">>, Decimal(c)>>)

ProductOfSum(a, b, c) ==
    Join(<<<<"(">> \o Decimal(a), <<"+">>, Decimal(b) \o <<")">>, <<"*">>, Decimal(c)>>)

TernaryLines ==
    {SumProduct(a, b, c) : a \in SmallOperands, b \in SmallOperands, c \in SmallOperands}
    \cup {ProductOfSum(a, b, c) : a \in SmallOperands, b \in SmallOperands,
                                  c \in SmallOperands}

\* "3 + 8 * ((4 + 3) * 2 + 1) - 6 / (2 + 1)"
ReadmeExample ==
    Join(<<<<"3">>, <<"+">>, <<"8">>, <<"*">>, <<"(", "(", "4">>, <<"+">>, <<"3", ")">>,
           <<"*">>, <<"2">>, <<"+">>, <<"1", ")">>, <<"-">>, <<"6">>, <<"/">>,
           <<"(", "2">>, <<"+">>, <<"1", ")">>>>)

SpacedSigns3 == Join(<<<<"5">>, <<"-">>, <<"-">>, <<"3">>>>)
SpacedSigns5 == Join(<<<<"5">>, <<"+">>, <<"-">>, <<"-">>, <<"+">>, <<"-">>, <<"3">>>>)
JoinedSigns3 == Join(<<<<"5">>, <<"-", "-">>, <<"3">>>>)
JoinedSigns5 == Join(<<<<"5">>, <<"+", "-", "-", "+", "-">>, <<"3">>>>)

ExampleLines == {ReadmeExample, SpacedSigns3, SpacedSigns5, JoinedSigns3, JoinedSigns5,
                 Binary(3, "+", 8), SumProduct(3, 8, 2), ProductOfSum(3, 8, 2)}

\* the runs of two or more '+' and '-' signs
SignRuns == UNION {[1..n -> {"+", "-"}] : n \in 2..MaxRun}

\* "a run b", and "a runb" with the run directly before the digits of b
SignRunSpaced(a, run, b) == Join(<<Decimal(a), run, Decimal(b)>>)
SignRunJoined(a, run, b) == Join(<<Decimal(a), run \o Decimal(b)>>)

SignRunLines ==
    {SignRunSpaced(a, run, b) : a \in SmallOperands, run \in SignRuns, b \in SmallOperands}
    \cup {SignRunJoined(a, run, b) : a \in SmallOperands, run \in SignRuns, b \in 0..MaxSmall}
    \cup {SignRunSpaced(5, run, 3) : run \in SignRuns}
    \cup {SignRunJoined(5, run, 3) : run \in SignRuns}

\* "a op1 b op2 c"
Chain(a, op1, b, op2, c) == Join(<<Decimal(a), <<op1>>, Decimal(b), <<op2>>, Decimal(c)>>)

\* pairs of operators of equal precedence
EqualPrecedence ==
    {<<"-", "-">>, <<"-", "+">>, <<"+", "-">>, <<"+", "+">>,
     <<"/", "*">>, <<"*", "/">>, <<"%", "*">>, <<"/", "/">>}

\* the operands of '^': small enough for (a ^ b) ^ c
PowerOperands == {0, 1, 2}

ChainLines ==
    {Chain(a, ops[1], b, ops[2], c) :
        a \in SmallOperands, b \in SmallOperands, c \in 1..MaxSmall,
        ops \in EqualPrecedence}
    \cup {Chain(a, "^", b, "^", c) : a \in PowerOperands, b \in PowerOperands,
                                     c \in PowerOperands}
    \cup {Chain(a, "*", b, "^", c) : a \in PowerOperands, b \in PowerOperands,
                                     c \in PowerOperands}
    \cup {Chain(7, "-", 2, "-", 1), Chain(2, "^", 3, "^", 2), Chain(2, "*", 3, "^", 2)}

\* n spaces
Spaces(n) == [i \in 1..n |-> " "]

\* "left", n spaces, the sign and the digits of c directly after it: "3 -5", "3  -5"
SignBeforeDigits(left, n, sign, c) == left \o Spaces(n) \o <<sign>> \o Decimal(c)

\* "a * -c"
ProductWithSigned(a, sign, c) == Join(<<Decimal(a), <<"*">>, <<sign>> \o Decimal(c)>>)

\* the digits after the sign
SignedDigits == (0..MaxSmall) \cup {5}

SignBeforeDigitsLines ==
    {SignBeforeDigits(Decimal(a), n, sign, c) :
        a \in SmallOperands, n \in 1..MaxSpaces, sign \in {"+", "-"}, c \in SignedDigits}
    \cup {SignBeforeDigits(<<"x">>, n, sign, c) :
            n \in 1..MaxSpaces, sign \in {"+", "-"}, c \in SignedDigits}
    \cup {ProductWithSigned(a, sign, c) :
            a \in SmallOperands, sign \in {"+", "-"}, c \in SignedDigits}

\* "(line)"
Wrap(line) == <<"(">> \o line \o <<")">>

\* "3 * (-5)"
ProductWithNegative == Join(<<<<"3">>, <<"*">>, Wrap(Decimal(0 - 5))>>)

\* "(a + b)-c", "(a + b) -c" and "(a + b) - c"
SumMinusJoined(a, b, c) == Wrap(Binary(a, "+", b)) \o <<"-">> \o Decimal(c)
SumMinusBefore(a, b, c) == Wrap(Binary(a, "+", b)) \o <<" ", "-">> \o Decimal(c)
SumMinusSpaced(a, b, c) == Join(<<Wrap(Binary(a, "+", b)), <<"-">>, Decimal(c)>>)

SumMinusLines ==
    {SumMinusJoined(a, b, c) : a \in SmallOperands, b \in SmallOperands, c \in 0..MaxSmall}
    \cup {SumMinusBefore(a, b, c) : a \in SmallOperands, b \in SmallOperands,
                                   c \in 0..MaxSmall}
    \cup {SumMinusSpaced(a, b, c) : a \in SmallOperands, b \in SmallOperands,
                                   c \in 0..MaxSmall}

ParenLines ==
    {Wrap(Decimal(a)) : a \in SmallOperands \cup {3}}
    \cup {Wrap(Binary(a, op, b)) : a \in SmallOperands, op \in {"+", "-", "*"},
                                   b \in SmallOperands}
    \cup {Wrap(Wrap(Binary(1, "+", 2))), Wrap(<<"x">>), ProductWithNegative}
    \cup SumMinusLines

ArithLines == BinaryLines \cup TernaryLines \cup ExampleLines

Runes == {"1", " ", "+", "(", ")", "x", "$"}

\* "x + 1", "1 ) 1", "1 + 1 )", "1  + 1"
LongerRuneLines ==
    {Join(<<<<"x">>, <<"+">>, <<"1">>>>), Join(<<<<"1">>, <<")">>, <<"1">>>>),
     Join(<<<<"1">>, <<"+">>, <<"1">>, <<")">>>>), Join(<<<<"1">>, <<>>, <<"+">>, <<"1">>>>)}

RuneLines == UNION {[1..n -> Runes] : n \in 0..MaxLen} \cup LongerRuneLines

LineMemories == {NoMemory, [k \in {<<"x">>} |-> 2]}

PostfixTerms == {ValueTerm(0), ValueTerm(5)}
                \cup {OperatorTerm(o) : o \in {"+", "-", "*", "/", "%", "^"}}

PostfixInputs == UNION {[1..n -> PostfixTerms] : n \in 0..MaxTerms}

SessionLines ==
    {Join(<<<<"x">>, <<"=">>, <<"1">>>>),
     Join(<<<<"x">>, <<"=">>, <<"2">>>>),
     Join(<<<<"y">>, <<"=">>, <<"x">>, <<"+">>, <<"1">>>>),
     Join(<<<<"X">>, <<"=">>, <<"-", "3">>>>),
     Join(<<<<"X">>, <<"=">>, <<"y">>>>),
     Join(<<<<"x">>, <<"=">>, <<"1">>, <<"+">>>>),
     Join(<<<<"x">>, <<"=">>, <<"$">>>>),
     Join(<<<<"x">>, <<"=">>, <<"1">>, <<")">>>>),
     Join(<<<<"y">>, <<"=">>, <<"5">>, <<"/">>, <<"0">>>>),
     Join(<<<<"1", "x">>, <<"=">>, <<"2">>>>),
     <<"=", " ", "5">>,
     <<"x", " ", "=">>,
     <<"x">>, <<"y">>, <<"X">>,
     Join(<<<<"x">>, <<"+">>, <<"y">>>>),
     Join(<<<<"x">>, <<"*">>, <<"2">>>>),
     Join(<<<<"5">>, <<"/">>, <<"0">>>>),
     Join(<<<<"7">>, <<"%">>, <<"x">>>>),
     Join(<<<<"1">>, <<"+">>>>),
     <<>>, <<" ">>, <<" ", " ">>,
     <<"/", "h", "e", "l", "p">>, <<"/", "e", "x", "i", "t">>, <<"/", "f", "o", "o">>}

\* "/con" and a space before the line
Con(line) == <<"/", "c", "o", "n", " ">> \o line

ConLines == {Con(line) : line \in TernaryLines \cup ExampleLines}

Del(names) == <<"/", "d", "e", "l", " ">> \o names

CommandLines ==
    {Join(<<<<"x">>, <<"=">>, <<"1">>>>),
     Join(<<<<"x">>, <<"=">>, <<"2">>>>),
     Join(<<<<"X">>, <<"=">>, <<"-", "4">>>>),
     <<"x">>, <<"X">>,
     Del(<<"x">>), Del(<<"y">>), Del(<<"X", " ", "x">>), Del(<<"y", " ", "X">>),
     <<"/", "d", "e", "l">>,
     <<"/", "c", "l", "e", "a", "r">>,
     <<"/", "v", "a", "r", "s">>,
     Con(SumProduct(3, 8, 2)), Con(<<"x", " ", "+">>),
     <<"/", "c", "o", "n">>,
     <<"/", "w", "r", "i", "t", "e", " ", "f">>,
     <<"/", "w", "r", "i", "t", "e", " ">>,
     <<"/", "r", "e", "a", "d", " ", "f">>,
     <<"/", "r", "e", "a", "d", " ", "g">>,
     <<"/", "h", "e", "l", "p">>, <<"/", "e", "x", "i", "t">>}

----------------------------------------------------------------------------
(* Specifications *)

\* the state when handleCommand(line) has reached evaluateExpression, memory being mem
Handling(line, mem) ==
    LET b == handleCommand(line)
    IN  /\ memory = mem
        /\ pc = b.pc
        /\ input = b.input
        /\ statement = b.statement
        /\ assignee = b.assignee
        /\ text = b.text
        /\ err = b.err
        /\ out = b.out
        /\ prev = [input |-> <<>>, out |-> NoOutput]
        /\ pos = 1
        /\ currentTerm = ZeroRawTerm
        /\ lastTerm = ZeroRawTerm
        /\ stack = <<>>
        /\ expression = <<>>
        /\ vstack = <<>>
        /\ epos = 1
        /\ value = 0
        /\ files = NoFiles
        /\ file = NoFile

\* a session: the program starts with an empty memory and reads line after line
Init ==
    /\ memory = NoMemory
    /\ pc = "read"
    /\ input = <<>>
    /\ statement = "expression"
    /\ assignee = <<>>
    /\ text = <<>>
    /\ err = ""
    /\ out = NoOutput
    /\ prev = [input |-> <<>>, out |-> NoOutput]
    /\ pos = 1
    /\ currentTerm = ZeroRawTerm
    /\ lastTerm = ZeroRawTerm
    /\ stack = <<>>
    /\ expression = <<>>
    /\ vstack = <<>>
    /\ epos = 1
    /\ value = 0
    /\ files = NoFiles
    /\ file = NoFile

ReadLine == \E line \in SessionLines : Read(line)

Next == ReadLine \/ ScanRune \/ ScanEnd \/ EvalTerm \/ EvalEnd \/ Deliver

Spec == Init /\ [][Next]_vars

\* one line, from the call of handleCommand to its return
NextLine == ScanRune \/ ScanEnd \/ EvalTerm \/ EvalEnd \/ Deliver

InitArith == \E line \in ArithLines : Handling(line, NoMemory)

SpecArith == InitArith /\ [][NextLine]_vars

\* a session of the extended program
ReadCommandLine == \E line \in CommandLines : ReadExtended(line)

NextCommands ==
    ReadCommandLine \/ ScanRune \/ ScanEnd \/ EvalTerm \/ EvalEnd \/ Deliver \/ ScanFile

SpecCommands == Init /\ [][NextCommands]_vars

\* the state when the extended program's handleCommand(line) has reached the
\* converter or returned, memory being mem
HandlingExtended(line, mem) ==
    LET b == handleCommandExtended(line, mem, NoFiles)
    IN  /\ memory = b.memory
        /\ pc = b.pc
        /\ input = b.input
        /\ statement = b.statement
        /\ assignee = b.assignee
        /\ text = b.text
        /\ err = b.err
        /\ out = b.out
        /\ prev = [input |-> <<>>, out |-> NoOutput]
        /\ pos = 1
        /\ currentTerm = ZeroRawTerm
        /\ lastTerm = ZeroRawTerm
        /\ stack = <<>>
        /\ expression = <<>>
        /\ vstack = <<>>
        /\ epos = 1
        /\ value = 0
        /\ files = b.files
        /\ file = b.file

\* one /con line, from the call of handleCommand to its return
InitCon == \E line \in ConLines : HandlingExtended(line, NoMemory)

NextCon == ScanRune \/ ScanEnd \/ Deliver

SpecCon == InitCon /\ [][NextCon]_vars

InitParens ==
    \E line \in ParenLines : \E mem \in LineMemories : Handling(line, mem)

SpecParens == InitParens /\ [][NextLine]_vars

InitSignBeforeDigits ==
    \E line \in SignBeforeDigitsLines : \E mem \in LineMemories : Handling(line, mem)

SpecSignBeforeDigits == InitSignBeforeDigits /\ [][NextLine]_vars

InitChain == \E line \in ChainLines : Handling(line, NoMemory)

SpecChain == InitChain /\ [][NextLine]_vars

InitSigns == \E line \in SignRunLines : Handling(line, NoMemory)

SpecSigns == InitSigns /\ [][NextLine]_vars

InitRunes == \E line \in RuneLines : \E mem \in LineMemories : Handling(line, mem)

SpecRunes == InitRunes /\ [][NextLine]_vars

\* Evaluate applied to a postfix expression
InitEval ==
    /\ \E expr \in PostfixInputs : expression = expr
    /\ memory = NoMemory
    /\ pc = "evaluate"
    /\ input = <<>>
    /\ statement = "expression"
    /\ assignee = <<>>
    /\ text = <<>>
    /\ err = ""
    /\ out = NoOutput
    /\ prev = [input |-> <<>>, out |-> NoOutput]
    /\ pos = 1
    /\ currentTerm = ZeroRawTerm
    /\ lastTerm = ZeroRawTerm
    /\ stack = <<>>
    /\ vstack = <<>>
    /\ epos = 1
    /\ value = 0
    /\ files = NoFiles
    /\ file = NoFile

NextEval == EvalTerm \/ EvalEnd \/ Deliver

SpecEval == InitEval /\ [][NextEval]_vars

----------------------------------------------------------------------------
(* Claims *)

\* handleCommand(input) has returned
Returned == pc = "read"

\* the process has not ended in a panic, and Evaluate's result is defined
Running == pc \notin {"crashed", "undetermined"}

\* C1: the line "3 + 8 * ((4 + 3) * 2 + 1) - 6 / (2 + 1)" evaluates to 121 with no
\* error: the process does not panic on it, and when handleCommand has returned
\* evaluateExpression gave 121 and a nil error, and 121 was printed.
C1_ReadmeExample ==
    input = ReadmeExample =>
        /\ Running
        /\ Returned => err = "" /\ value = 121 /\ out = PrintValue(121)

C1_Witness == input = ReadmeExample /\ Returned /\ out.kind = "value"

\* C2: for all a, b, c of the bounded set the line "a + b * c" evaluates to a+(b*c)
\* and the line "(a + b) * c" to (a+b)*c, with no error; "3 + 8 * 2" gives 19 and
\* "(3 + 8) * 2" gives 22.
C2_Precedence ==
    Returned =>
        /\ \A a \in SmallOperands, b \in SmallOperands, c \in SmallOperands :
              /\ input = SumProduct(a, b, c) =>
                    err = "" /\ out = PrintValue(a + (b * c))
              /\ input = ProductOfSum(a, b, c) =>
                    err = "" /\ out = PrintValue((a + b) * c)
        /\ input = SumProduct(3, 8, 2) => err = "" /\ out = PrintValue(19)
        /\ input = ProductOfSum(3, 8, 2) => err = "" /\ out = PrintValue(22)

C2_Witness ==
    /\ Returned
    /\ input = ProductOfSum(0 - 2, 3, 0 - 3)
    /\ out = PrintValue(0 - 3)

\* C3: for all a and b of the bounded set, negative ones written with a leading '-',
\* the lines "a + b", "a - b" and "a * b" evaluate to a+b, a-b and a*b with no error.
C3_Binary ==
    Returned =>
        \A a \in Operands, b \in Operands :
            /\ input = Binary(a, "+", b) => err = "" /\ out = PrintValue(a + b)
            /\ input = Binary(a, "-", b) => err = "" /\ out = PrintValue(a - b)
            /\ input = Binary(a, "*", b) => err = "" /\ out = PrintValue(a * b)

C3_Witness ==
    /\ Returned
    /\ input = Binary(0 - 3, "-", 0 - 5)
    /\ out = PrintValue(2)

\* C4: division or modulo by zero returns an error value to the caller and does not
\* end the process: on a line "a / 0" or "a % 0" the process never panics, and when
\* handleCommand has returned the error is set and a message, not a value, was printed.
C4_DivisionByZeroReturned ==
    \A a \in Operands :
        input \in {Binary(a, "/", 0), Binary(a, "%", 0)} =>
            /\ pc # "crashed"
            /\ Returned => err # "" /\ out.kind = "message"

\* C5 as claimed: signs separated by spaces collapse by the parity of their '-' signs:
\* "5 - - 3" evaluates to 8 and "5 + - - + - 3" to 2, both without error.
C5_SpacedSignsCollapse ==
    Returned =>
        /\ input = SpacedSigns3 => err = "" /\ out = PrintValue(8)
        /\ input = SpacedSigns5 => err = "" /\ out = PrintValue(2)

\* C5 as amended: a space closes a sign, so signs separated by spaces are separate
\* operators and "5 - - 3" and "5 + - - + - 3" fail with Invalid expression; only a
\* run without spaces collapses: "5 -- 3" evaluates to 8 and "5 +--+- 3" to 2.
C5_SpacedSignsRejected ==
    Returned =>
        /\ input \in {SpacedSigns3, SpacedSigns5} =>
              err = INVALID /\ out = PrintMessage("Invalid expression")
        /\ input = JoinedSigns3 => err = "" /\ out = PrintValue(8)
        /\ input = JoinedSigns5 => err = "" /\ out = PrintValue(2)

C5_Witness ==
    /\ Returned
    /\ input = SpacedSigns5
    /\ out = PrintMessage("Invalid expression")

\* the number of runes c among the first n runes of line
RECURSIVE Count(_, _, _)
Count(line, n, c) ==
    IF n = 0 THEN 0 ELSE Count(line, n - 1, c) + (IF line[n] = c THEN 1 ELSE 0)

\* some ')' of the line has no matching '(' before it
UnmatchedClose(line) ==
    \E i \in 1..Len(line) : Count(line, i, ")") > Count(line, i, "(")

\* C6: every line in which some ')' has no matching '(' before it fails:
\* evaluateExpression returns an error, and a message, never a value, is printed;
\* and a line that starts with ')' is rejected by the converter, so that Evaluate
\* is not called.
C6_UnmatchedCloseFails ==
    /\ (Returned /\ UnmatchedClose(input)) => err # "" /\ out.kind = "message"
    /\ HasPrefix(TrimSpace(input), <<")">>) => pc # "evaluate"

\* line[i..j] is a name: a maximal run of Latin letters
NameAt(line, i, j) ==
    /\ i <= j
    /\ \A k \in i..j : line[k] \in LatinRunes
    /\ i = 1 \/ line[i - 1] \notin LatinRunes
    /\ j = Len(line) \/ line[j + 1] \notin LatinRunes

\* nothing before line[i] can fail: digits, spaces, operators other than ')', and
\* names that are keys of mem
CannotFailBefore(line, i, mem) ==
    /\ \A k \in 1..(i - 1) :
          line[k] \in Digits \cup {" "} \cup (OperatorRunes \ {")"}) \cup LatinRunes
    /\ \A p \in 1..(i - 1), q \in 1..(i - 1) :
          NameAt(line, p, q) => SubSeq(line, p, q) \in DOMAIN mem

UnknownNameFirst(line, mem) ==
    \E i \in 1..Len(line), j \in 1..Len(line) :
        /\ NameAt(line, i, j)
        /\ SubSeq(line, i, j) \notin DOMAIN mem
        /\ CannotFailBefore(line, i, mem)

\* C7: a line whose first failing term is a name of Latin letters that is not a key
\* of memory fails with Unknown variable and yields no value: Evaluate is not
\* called, and when handleCommand has returned the error is UNKNOWN, the value is
\* the zero value and "Unknown variable" was printed.
C7_UnknownVariable ==
    UnknownNameFirst(input, memory) =>
        /\ pc \notin {"evaluate", "crashed", "undetermined"}
        /\ Returned => err = UNKNOWN /\ value = 0 /\ out = PrintMessage(UNKNOWN)

C7_Witness ==
    /\ Returned
    /\ input = Join(<<<<"x">>, <<"+">>, <<"1">>>>)
    /\ memory = NoMemory
    /\ out = PrintMessage(UNKNOWN)

\* the raw term has no classification and no text
EmptyRawTerm(term) ==
    ~term.isIdentifier /\ ~term.isValue /\ ~term.isOperator /\ Len(term.Text) = 0

\* C8: when the lexer closes an empty raw term (a space read while the current term
\* is empty, or the end of the input with an empty current term) the converter
\* appends nothing to the expression.
C8_EmptyTermAddsNothing ==
    [][(/\ pc = "scan"
        /\ EmptyRawTerm(currentTerm)
        /\ pos > Len(text) \/ text[pos] = " ")
       => expression' = expression]_vars

\* C9: whenever Evaluate reaches an operator term while the value stack holds fewer
\* than two values, it does not panic and its error is Invalid.
C9_UnderflowIsInvalid ==
    [][(/\ pc = "evaluate"
        /\ epos <= Len(expression)
        /\ expression[epos].IsOperator
        /\ Len(vstack) < 2)
       => pc' # "crashed" /\ err' = INVALID]_vars

\* the line is handled by handleExpression
ExpressionLine(line) == ~HasPrefix(line, <<"/">>) /\ ~Contains(line, "=")

\* C10: memory changes only when a successful assignment is delivered, and then to
\* memory with the assignee mapped to the value; an assignment that failed leaves
\* memory as it was; and an expression line handled twice in a row prints the same.
C10_MemoryFrame ==
    [][/\ memory' # memory =>
              /\ pc = "deliver"
              /\ statement = "assignment"
              /\ err = ""
              /\ memory' = Store(memory, assignee, value)
       /\ (pc = "deliver" /\ statement = "assignment" /\ err # "") => memory' = memory
       /\ (pc' = "read" /\ ExpressionLine(input') /\ prev'.input = input')
              => out' = prev'.out]_vars

C10_Witness ==
    /\ Returned
    /\ input = Join(<<<<"x">>, <<"=">>, <<"1">>, <<"+">>>>)
    /\ out = PrintMessage("Invalid assignment")
    /\ <<"x">> \in DOMAIN memory
    /\ memory[<<"x">>] = 2

\* the names the session's lines use
SessionNames == {<<"x">>, <<"y">>, <<"X">>}

\* a successful assignment to the name is being delivered
Assigning(name) ==
    pc = "deliver" /\ statement = "assignment" /\ err = "" /\ assignee = name

\* C11: when a line "x = e" whose right side evaluated to v without error is
\* delivered, memory maps x to v afterwards and every other variable keeps its value;
\* a variable keeps its value over every step that is not a successful assignment to
\* it; a later line that is the name alone prints the value memory holds for it, and
\* names are case-sensitive: "X" is looked up as "X", and is unknown while only "x"
\* is defined.
C11_AssignmentPersists ==
    [][/\ \A name \in SessionNames :
             /\ Assigning(name) =>
                   /\ DOMAIN memory' = DOMAIN memory \cup {name}
                   /\ memory'[name] = value
                   /\ \A other \in DOMAIN memory \ {name} : memory'[other] = memory[other]
             /\ (name \in DOMAIN memory /\ ~Assigning(name)) =>
                   name \in DOMAIN memory' /\ memory'[name] = memory[name]
             /\ (pc' = "read" /\ input' = name) =>
                   IF name \in DOMAIN memory'
                   THEN err' = "" /\ out' = PrintValue(memory'[name])
                   ELSE err' = UNKNOWN /\ out' = PrintMessage(UNKNOWN)]_vars

C11_Witness ==
    /\ Returned
    /\ input = <<"x">>
    /\ DOMAIN memory = SessionNames
    /\ memory[<<"x">>] = 2
    /\ memory[<<"X">>] = 0 - 3
    /\ memory[<<"y">>] = 2
    /\ out = PrintValue(2)

\* the line is empty or made only of spaces
AllSpaces(line) == \A i \in 1..Len(line) : line[i] = " "

\* C12: a line that is empty or made only of spaces fails with the EMPTY error, which
\* is not the INVALID error: the converter and Evaluate never run on it, nothing is
\* printed for it (neither a value nor a message), and memory stays as it was.
C12_EmptyLineIsSilent ==
    [][/\ EMPTY # INVALID
       /\ AllSpaces(input) => memory' = memory
       /\ AllSpaces(input') => pc' \in {"read", "deliver"} /\ out' = NoOutput
       /\ (AllSpaces(input') /\ pc' = "deliver") => err' = EMPTY
       /\ (AllSpaces(input) /\ pc = "deliver") => pc' = "read" /\ err' = EMPTY]_vars

C12_Witness ==
    /\ Returned
    /\ input = <<" ", " ">>
    /\ err = EMPTY
    /\ out = NoOutput
    /\ <<"x">> \in DOMAIN memory

\* q and r are the quotient rounded toward zero and its remainder: a = q*b + r with
\* r smaller than b in magnitude and of the sign of a
TruncatedDivision(a, b, q, r) ==
    /\ a = (q * b) + r
    /\ Abs(r) < Abs(b)
    /\ a >= 0 => r >= 0
    /\ a <= 0 => r <= 0

\* C13: for all a and b of the bounded set with b not 0, the line "a / b" evaluates
\* without error to the quotient rounded toward zero and "a % b" to its remainder r,
\* with a = (a/b)*b + r and r of the sign of a; "7 / 2" gives 3, "7 % 2" gives 1,
\* "-7 / 2" gives -3 and "-7 % 2" gives -1.
C13_TruncatedDivision ==
    Returned =>
        /\ \A a \in Operands, b \in Operands \ {0} :
              /\ input = Binary(a, "/", b) =>
                    /\ err = "" /\ out.kind = "value"
                    /\ \E r \in Operands : TruncatedDivision(a, b, out.value, r)
              /\ input = Binary(a, "%", b) =>
                    /\ err = "" /\ out.kind = "value"
                    /\ \E q \in Operands : TruncatedDivision(a, b, q, out.value)
        /\ input = Binary(7, "/", 2) => out = PrintValue(3)
        /\ input = Binary(7, "%", 2) => out = PrintValue(1)
        /\ input = Binary(0 - 7, "/", 2) => out = PrintValue(0 - 3)
        /\ input = Binary(0 - 7, "%", 2) => out = PrintValue(0 - 1)

C13_Witness ==
    /\ Returned
    /\ input = Binary(0 - 7, "%", 2)
    /\ out = PrintValue(0 - 1)

\* the operator a run of signs stands for: '-' when it holds an odd number of '-'
RunValue(a, run, b) ==
    IF Count(run, Len(run), "-") % 2 = 1 THEN a - b ELSE a + b

\* C14: a run of two or more '+' and '-' signs without a space inside, standing
\* between two operands, acts as '-' when it holds an odd number of '-' signs and as
\* '+' otherwise, whether a space or a digit follows the run: "5 -- 3" and "5 --3"
\* give 8, "5 +-+ 3" and "5 --- 3" give 2.
C14_SignRun ==
    Returned =>
        /\ \A run \in SignRuns :
              /\ \A a \in SmallOperands \cup {5}, b \in SmallOperands \cup {3} :
                    input = SignRunSpaced(a, run, b) =>
                        err = "" /\ out = PrintValue(RunValue(a, run, b))
              /\ \A a \in SmallOperands \cup {5}, b \in 0..MaxSmall :
                    input = SignRunJoined(a, run, b) =>
                        err = "" /\ out = PrintValue(RunValue(a, run, b))
        /\ input = SignRunSpaced(5, <<"-", "-">>, 3) => out = PrintValue(8)
        /\ input = SignRunJoined(5, <<"-", "-">>, 3) => out = PrintValue(8)
        /\ input = SignRunSpaced(5, <<"+", "-", "+">>, 3) => out = PrintValue(2)
        /\ input = SignRunSpaced(5, <<"-", "-", "-">>, 3) => out = PrintValue(2)

C14_Witness ==
    /\ Returned
    /\ input = SignRunJoined(5, <<"-", "-">>, 3)
    /\ out = PrintValue(8)

\* C15: /con prints the postfix form of a valid infix line: its terms in postfix
\* order separated by single spaces, numbers in decimal, operators as their symbol,
\* the operands in the order of the input.  For all a, b, c of the bounded set
\* "/con a + b * c" prints "a b c * +" and "/con (a + b) * c" prints "a b + c *";
\* "3 + 8 * 2" prints "3 8 2 * +" and "(3 + 8) * 2" prints "3 8 + 2 *".
C15_ConPrintsPostfix ==
    Returned =>
        /\ \A a \in SmallOperands, b \in SmallOperands, c \in SmallOperands :
              /\ input = Con(SumProduct(a, b, c)) =>
                    /\ err = ""
                    /\ out = PrintMessage(Printed(Join(<<Decimal(a), Decimal(b), Decimal(c),
                                                         <<"*">>, <<"+">>>>)))
              /\ input = Con(ProductOfSum(a, b, c)) =>
                    /\ err = ""
                    /\ out = PrintMessage(Printed(Join(<<Decimal(a), Decimal(b), <<"+">>,
                                                         Decimal(c), <<"*">>>>)))
        /\ input = Con(SumProduct(3, 8, 2)) => out = PrintMessage("3 8 2 * +")
        /\ input = Con(ProductOfSum(3, 8, 2)) => out = PrintMessage("3 8 + 2 *")

C15_Witness ==
    /\ Returned
    /\ input = Con(ProductOfSum(3, 8, 2))
    /\ out = PrintMessage("3 8 + 2 *")

\* the operator stack as terms, its top first
TopFirst(s) == [i \in 1..Len(s) |-> OperatorTerm(s[Len(s) + 1 - i])]

\* every name of the line is a key of mem
NamesKnown(line, mem) ==
    \A i \in 1..Len(line), j \in 1..Len(line) :
        NameAt(line, i, j) => SubSeq(line, i, j) \in DOMAIN mem

\* C16: at the end of the input, when the last term has been added without error,
\* the converter appends every operator left on the stack to the expression, the top
\* of the stack first, and returns no error; and on a line with a '(' and no ')',
\* whose names are all known and whose runes are all valid, no step of the converter
\* returns an error: the '(' never closed is appended like any operator and Evaluate
\* is called.
C16_EndOfInputPopsAll ==
    [][/\ (pc = "scan" /\ pos > Len(text)) =>
              LET g == Grow(expression, stack, validate(currentTerm, memory).validated)
              IN  (validate(currentTerm, memory).err = "" /\ g.err = "") =>
                      /\ err' = ""
                      /\ expression' = g.expression \o TopFirst(g.stack)
                      /\ stack' = <<>>
       /\ (pc = "scan" /\ Contains(input, "(") /\ ~Contains(input, ")")
              /\ ~Contains(input, "$") /\ NamesKnown(input, memory)) =>
              /\ err' = ""
              /\ pos > Len(text) => pc' = "evaluate" /\ Contains(String(expression'), "(")]_vars

C16_Witness ==
    /\ pc = "evaluate"
    /\ input = <<"(", "1", "+", "1">>
    /\ err = ""
    /\ expression = <<ValueTerm(1), ValueTerm(1), OperatorTerm("+"), OperatorTerm("(")>>

\* a non-empty name made only of Latin letters
IsName(name) == Len(name) > 0 /\ \A i \in 1..Len(name) : name[i] \in LatinRunes

\* C17: every key of memory is a non-empty name made only of Latin letters; and when
\* an assignment whose left side is not such a name has been handled, "Invalid
\* identifier" was printed, its right side was not evaluated and memory holds no
\* key for its left side.
C17_KeysAreNames ==
    /\ \A name \in DOMAIN memory : IsName(name)
    /\ (Returned /\ Contains(input, "=") /\ ~IsName(TrimSpace(SplitN(input, "=")[1]))) =>
           /\ out = PrintMessage("Invalid identifier")
           /\ statement = "none"
           /\ TrimSpace(SplitN(input, "=")[1]) \notin DOMAIN memory

\* the /del lines of the session and the variables each names
DelCases ==
    {[line |-> Del(<<"x">>), names |-> {<<"x">>}],
     [line |-> Del(<<"y">>), names |-> {<<"y">>}],
     [line |-> Del(<<"X", " ", "x">>), names |-> {<<"X">>, <<"x">>}],
     [line |-> Del(<<"y", " ", "X">>), names |-> {<<"y">>, <<"X">>}],
     [line |-> <<"/", "d", "e", "l">>, names |-> {}]}

\* C18: "/del n1 n2 ..." removes exactly the named variables: memory afterwards has
\* the keys it had but the named ones, each with the value it had, whether the named
\* variables were defined or not, and nothing is printed; and a line that is a named
\* variable, read directly after the /del, fails with Unknown variable.
C18_DelRemovesNamed ==
    [][\A c \in DelCases :
          /\ (pc = "read" /\ input' = c.line) =>
                /\ pc' = "read"
                /\ out' = NoOutput
                /\ DOMAIN memory' = DOMAIN memory \ c.names
                /\ \A name \in DOMAIN memory' : memory'[name] = memory[name]
          /\ (pc = "deliver" /\ input \in c.names /\ prev.input = c.line) =>
                /\ err = UNKNOWN
                /\ out' = PrintMessage(UNKNOWN)
                /\ memory' = memory]_vars

C18_Witness ==
    /\ Returned
    /\ input = <<"X">>
    /\ prev.input = Del(<<"y", " ", "X">>)
    /\ out = PrintMessage(UNKNOWN)
    /\ <<"x">> \in DOMAIN memory
    /\ memory[<<"x">>] = 2

\* the runes the lexer knows: the space, the digits, the operators, the Latin letters
ValidRunes == {" "} \cup Digits \cup OperatorRunes \cup LatinRunes

\* the line has a rune the lexer does not know
InvalidRuneAt(line, i) == i \in 1..Len(line) /\ line[i] \notin ValidRunes

\* C19: the conversion of a line that contains a rune which is not a space, a digit,
\* an operator or a Latin letter never succeeds, wherever the rune stands: Evaluate
\* is never called, and when handleCommand has returned an error message, no value,
\* was printed.  The error is INVALID, unless a name before the first such rune is
\* unknown, which fails first with UNKNOWN.
C19_InvalidRuneFails ==
    \A i \in 1..Len(input) :
        InvalidRuneAt(input, i) =>
            /\ pc \notin {"evaluate", "crashed", "undetermined"}
            /\ Len(vstack) = 0
            /\ Returned =>
                  /\ err \in {INVALID, UNKNOWN}
                  /\ out.kind = "message"
                  /\ (\A j \in 1..(i - 1) : ~InvalidRuneAt(input, j)) =>
                        IF NamesKnown(SubSeq(input, 1, i - 1), memory)
                        THEN err = INVALID /\ out = PrintMessage("Invalid expression")
                        ELSE err \in {INVALID, UNKNOWN}

C19_Witness ==
    /\ Returned
    /\ input = <<"1", "+", "x", "$">>
    /\ <<"x">> \in DOMAIN memory
    /\ err = INVALID
    /\ out = PrintMessage("Invalid expression")

\* C20: a valid expression wrapped in parentheses evaluates without error to the
\* value of the expression: "(a)", "(a + b)", "(a - b)" and "(a * b)" for all a and b
\* of the bounded set, "(x)" for a known x, "(3)" gives 3, "3 * (-5)" gives -15 and
\* "((1 + 2))" gives 3; and the postfix expression the converter hands to Evaluate
\* holds no '(' and no ')' term.
C20_ParenthesesKeepValue ==
    /\ Returned =>
          /\ \A a \in SmallOperands \cup {3} :
                input = Wrap(Decimal(a)) => err = "" /\ out = PrintValue(a)
          /\ \A a \in SmallOperands, b \in SmallOperands :
                /\ input = Wrap(Binary(a, "+", b)) => err = "" /\ out = PrintValue(a + b)
                /\ input = Wrap(Binary(a, "-", b)) => err = "" /\ out = PrintValue(a - b)
                /\ input = Wrap(Binary(a, "*", b)) => err = "" /\ out = PrintValue(a * b)
          /\ (input = Wrap(<<"x">>) /\ <<"x">> \in DOMAIN memory) =>
                err = "" /\ out = PrintValue(memory[<<"x">>])
          /\ input = ProductWithNegative => err = "" /\ out = PrintValue(0 - 15)
          /\ input = Wrap(Wrap(Binary(1, "+", 2))) => err = "" /\ out = PrintValue(3)
    /\ pc = "evaluate" =>
          \A i \in 1..Len(expression) :
              ~(expression[i].IsOperator /\ expression[i].Operator \in {"(", ")"})

\* C21: a '-' that follows a closing parenthesis is the binary operator also when
\* the digits follow it without a space: for all a, b, c of the bounded set the
\* lines "(a + b)-c" and "(a + b) -c" evaluate without error to (a+b)-c, as
\* "(a + b) - c" does.
C21_SignAfterParenthesis ==
    Returned =>
        \A a \in SmallOperands, b \in SmallOperands, c \in 0..MaxSmall :
            input \in {SumMinusJoined(a, b, c), SumMinusBefore(a, b, c),
                       SumMinusSpaced(a, b, c)}
                => err = "" /\ out = PrintValue((a + b) - c)

\* the value of "left sign c" with the sign as binary operator
Signed(left, sign, c) == IF sign = "-" THEN left - c ELSE left + c

\* C22: a single '+' or '-' directly before a digit is the binary operator when the
\* term before it, across any number of spaces, is a number or an identifier, and
\* the sign of the literal otherwise: for all a, c of the bounded set and one or more
\* spaces "a -c" gives a-c and "a +c" gives a+c, "x -c" gives x-c for a known x,
\* and "a * -c" gives a*(-c); "3 -5" and "3  -5" give -2 and "3 * -5" gives -15.
C22_SignBeforeDigits ==
    Returned =>
        /\ \A n \in 1..MaxSpaces, sign \in {"+", "-"}, c \in SignedDigits :
              /\ \A a \in SmallOperands :
                    input = SignBeforeDigits(Decimal(a), n, sign, c) =>
                        err = "" /\ out = PrintValue(Signed(a, sign, c))
              /\ (input = SignBeforeDigits(<<"x">>, n, sign, c)
                     /\ <<"x">> \in DOMAIN memory) =>
                    err = "" /\ out = PrintValue(Signed(memory[<<"x">>], sign, c))
        /\ \A a \in SmallOperands, sign \in {"+", "-"}, c \in SignedDigits :
              input = ProductWithSigned(a, sign, c) =>
                  err = "" /\ out = PrintValue(a * Signed(0, sign, c))
        /\ input = SignBeforeDigits(<<"3">>, 1, "-", 5) => out = PrintValue(0 - 2)
        /\ input = SignBeforeDigits(<<"3">>, 2, "-", 5) => out = PrintValue(0 - 2)
        /\ input = ProductWithSigned(3, "-", 5) => out = PrintValue(0 - 15)

\* a op b as Operate computes it, for a divisor that is not 0
Applied(op, a, b) == Operate(op, a, b).result

\* no division or remainder by 0 when the chain is evaluated from the left
LeftDefined(a, op1, b, op2, c) ==
    /\ op1 \in {"/", "%"} => b # 0
    /\ op2 \in {"/", "%"} => c # 0

\* C23: operators of equal precedence associate to the left, '^' included: for all
\* a, b, c of the bounded set "a op1 b op2 c" evaluates without error to
\* (a op1 b) op2 c when op1 and op2 have the same precedence and no divisor is 0,
\* "a ^ b ^ c" to (a^b)^c, and "a * b ^ c" to a*(b^c); "2 ^ 3 ^ 2" gives 64 and
\* "2 * 3 ^ 2" gives 18.
C23_LeftAssociative ==
    Returned =>
        /\ \A a \in SmallOperands, b \in SmallOperands, c \in 1..MaxSmall,
              ops \in EqualPrecedence :
              (input = Chain(a, ops[1], b, ops[2], c)
                 /\ LeftDefined(a, ops[1], b, ops[2], c)) =>
                  /\ err = ""
                  /\ out = PrintValue(Applied(ops[2], Applied(ops[1], a, b), c))
        /\ \A a \in PowerOperands, b \in PowerOperands, c \in PowerOperands :
              /\ input = Chain(a, "^", b, "^", c) =>
                    err = "" /\ out = PrintValue(Power(Power(a, b), c))
              /\ input = Chain(a, "*", b, "^", c) =>
                    err = "" /\ out = PrintValue(a * Power(b, c))
        /\ input = Chain(7, "-", 2, "-", 1) => out = PrintValue(4)
        /\ input = Chain(2, "^", 3, "^", 2) => out = PrintValue(64)
        /\ input = Chain(2, "*", 3, "^", 2) => out = PrintValue(18)

C23_Witness ==
    /\ Returned
    /\ input = Chain(2, "^", 3, "^", 2)
    /\ out = PrintValue(64)

\* the lines "/write f", "/clear" and "/read f"
WriteF == <<"/", "w", "r", "i", "t", "e", " ", "f">>
Clear == <<"/", "c", "l", "e", "a", "r">>
ReadF == <<"/", "r", "e", "a", "d", " ", "f">>

\* the memories a session of the extended program over CommandLines can have
CommandMemories ==
    {mem \in UNION {[names -> {1, 2, 0 - 4}] : names \in SUBSET {<<"x">>, <<"X">>}} :
        /\ <<"x">> \in DOMAIN mem => mem[<<"x">>] \in {1, 2}
        /\ <<"X">> \in DOMAIN mem => mem[<<"X">>] = 0 - 4}

\* C24: writing and reading the variables round-trips.  "/write f" leaves memory as
\* it is and makes the file f hold memory's variables; "/clear" leaves no variable
\* defined and the file as it is; and when "/read f" returns, having been read
\* directly after "/clear", memory is the memory that was written to f, negative
\* values included.
C24_WriteClearRead ==
    [][/\ memory' \in CommandMemories
       /\ (pc = "read" /\ input' = WriteF) =>
              /\ pc' = "read"
              /\ memory' = memory
              /\ <<"f">> \in DOMAIN files'
              /\ files'[<<"f">>] = printVariables(memory)
       /\ (pc = "read" /\ input' = Clear) =>
              /\ pc' = "read"
              /\ memory' = NoMemory
              /\ files' = files
       /\ (pc = "readVariables" /\ pc' = "read" /\ input = ReadF /\ prev.input = Clear) =>
              /\ files' = files
              /\ \A mem \in CommandMemories :
                    files[<<"f">>] = printVariables(mem) => memory' = mem]_vars

C24_Witness ==
    /\ Returned
    /\ input = ReadF
    /\ prev.input = Clear
    /\ DOMAIN memory = {<<"x">>, <<"X">>}
    /\ memory[<<"x">>] = 2
    /\ memory[<<"X">>] = 0 - 4
    /\ files[<<"f">>] = printVariables(memory)

====
